---- MODULE Spec2Model ----
(***************************************************************************)
(* Model of the package-docs MCP server (src/src/index.ts): the            *)
(* CallToolRequestSchema handler, its two registry fetches and the two     *)
(* document renderers.                                                     *)
(*                                                                         *)
(* Text is modelled as a sequence of string tokens whose concatenation is  *)
(* the JavaScript string: a template literal `## Homepage\n${x}\n\n`       *)
(* becomes <<"## Homepage\n", x, "\n\n">>.  A repository URL is a sequence *)
(* of one-character tokens so that String.prototype.replace can be         *)
(* computed on it.  A JavaScript object is a function whose DOMAIN is the  *)
(* set of keys that are present; an ordered mapping (project_urls) is a    *)
(* sequence of <<key, value>> pairs in insertion order.  A TLA+ string     *)
(* cannot hold a backquote: the code fence of the install command is       *)
(* written with three apostrophes.                                         *)
(***************************************************************************)
EXTENDS Naturals, Sequences, FiniteSets, TLC

VARIABLES pc, request, fetched, response, emitted

vars == <<pc, request, fetched, response, emitted>>

(* ------------------------------ bounds -------------------------------- *)

\* invocations the transport may have in flight at once
NumInvocations == 2
\* longest keyword list / project_urls mapping of a generated record
MaxKeywords == 2
MaxLinks == 2

Slots == 1..NumInvocations

(* --------------------------- JavaScript values ------------------------ *)

\* String(undefined), as a template literal or a property key renders it
undefined == "undefined"

EmptyObject == [k \in {} |-> undefined]

Has(obj, key) == key \in DOMAIN obj

Get(obj, key) == IF Has(obj, key) THEN obj[key] ELSE undefined

\* truthiness of a string-or-undefined value: if (response.data.description)
Truthy(s) == s # undefined /\ s # ""

(* ------------------------------ requests ------------------------------ *)

ToolNames == {"get_npm_docs", "get_pypi_docs"}

OperationNames == ToolNames \cup {"get_cargo_docs"}

PackageNames == {"left-pad", "Left-Pad"}

\* the inputSchema of both tools requires package_name: string; an
\* invocation of a name that is no tool has no schema, and may come with no
\* package_name at all
Requests ==
    { [name |-> n, arguments |-> [package_name |-> p]] :
        n \in OperationNames, p \in PackageNames }
    \cup { [name |-> n, arguments |-> EmptyObject] :
             n \in OperationNames \ ToolNames }

npmClient == [baseURL |-> "https://registry.npmjs.org"]

pypiClient == [baseURL |-> "https://pypi.org/pypi"]

\* the npm case fetching through the PyPI client
NpmGetWrongClient(package_name) ==
    [baseURL |-> pypiClient.baseURL, url |-> <<"/", package_name>>]

\* npmClient.get(`/${package_name}`)
NpmGet(package_name) ==
    [baseURL |-> npmClient.baseURL, url |-> <<"/", package_name>>]

\* pypiClient.get(`/${package_name}/json`)
PypiGet(package_name) ==
    [baseURL |-> pypiClient.baseURL, url |-> <<"/", package_name, "/json">>]

(* ------------------------- upstream responses ------------------------- *)

\* a function with domain {} (the field is absent) or {key}, one per value
OptField(key, values) ==
    {EmptyObject} \cup { [k \in {key} |-> v] : v \in values }

\* repository URLs as sequences of characters: "git+h", "h", "hgit+h",
\* "git+git+h", "git", "" and "git+"
RepositoryUrls ==
    { <<"g", "i", "t", "+", "h">>,
      <<"h">>,
      <<"h", "g", "i", "t", "+", "h">>,
      <<"g", "i", "t", "+", "g", "i", "t", "+", "h">>,
      <<"g", "i", "t">>,
      <<>>,
      <<"g", "i", "t", "+">> }

KeywordPool == <<"pad", "string", "left", "util", "text">>

KeywordLists == { SubSeq(KeywordPool, 1, n) : n \in 0..MaxKeywords }

LinkPool ==
    { <<"Docs", "https://d">>, <<"Source", "https://s">>,
      <<"Changelog", "https://c">> }

\* ordered mappings with distinct keys, in every insertion order
LinkMappings ==
    UNION { { m \in [1..n -> LinkPool] :
                \A i, j \in 1..n : i # j => m[i][1] # m[j][1] } :
            n \in 0..MaxLinks }

\* versions[<tag>]{homepage?, repository?.url?, keywords?}
NpmVersionEntries ==
    { h @@ r @@ k :
        h \in OptField("homepage", {"", "https://x"}),
        r \in OptField("repository",
                       OptField("url", RepositoryUrls)),
        k \in OptField("keywords", KeywordLists) }

NpmRecords ==
    { [name |-> "left-pad"] @@ d @@ t @@ v @@ r :
        d \in OptField("description", {"", "String left pad"}),
        t \in OptField("dist-tags", OptField("latest", {"1.3.0"})),
        v \in OptField("versions",
                       {EmptyObject}
                       \cup { [k \in {"1.3.0"} |-> e] : e \in NpmVersionEntries }),
        r \in OptField("readme", {"", "README text"}) }

PypiInfos ==
    { [name |-> "left-pad", version |-> "0.2.1"] @@ s @@ h @@ p @@ k @@ d :
        s \in OptField("summary", {"", "Left pad for Python"}),
        h \in OptField("home_page", {"", "https://x"}),
        p \in OptField("project_urls", LinkMappings),
        k \in OptField("keywords", {"", "pad,string"}),
        d \in OptField("description", {"", "Long description"}) }

PypiRecords == OptField("info", PypiInfos)

\* what axios rejects with: transport failure, timeout, non-2xx status
AxiosErrors ==
    { [name |-> "AxiosError", isAxiosError |-> TRUE, code |-> c[1],
       message |-> <<c[2]>>] :
        c \in { <<"ERR_BAD_REQUEST", "Request failed with status code 404">>,
                <<"ECONNREFUSED", "connect ECONNREFUSED">>,
                <<"ETIMEDOUT", "connect ETIMEDOUT">> } }

Resolved(data) == [ok |-> TRUE, data |-> data]

Rejected(error) == [ok |-> FALSE, error |-> error]

(* ---------------------------- completions ----------------------------- *)

TypeError ==
    [name |-> "TypeError", isAxiosError |-> FALSE, code |-> undefined,
     message |-> <<"Cannot read properties of undefined">>]

McpError(code, message) ==
    [name |-> "McpError", isAxiosError |-> FALSE, code |-> code,
     message |-> message]

isAxiosError(error) == error.isAxiosError

Return(docs) ==
    [kind |-> "return", content |-> <<[type |-> "text", text |-> docs]>>]

Throw(error) == [kind |-> "throw", error |-> error]

(* ----------------------------- rendering ------------------------------ *)

Min(S) == CHOOSE x \in S : \A y \in S : x <= y

\* String.prototype.replace(pattern, replacement) with a string pattern:
\* the first occurrence, wherever it is
Replace(s, pattern, replacement) ==
    LET n == Len(pattern)
        occ == { i \in 1..(Len(s) + 1) :
                   i + n - 1 <= Len(s) /\ SubSeq(s, i, i + n - 1) = pattern }
    IN  IF occ = {} THEN s
        ELSE LET i == Min(occ)
             IN  SubSeq(s, 1, i - 1) \o replacement \o SubSeq(s, i + n, Len(s))

RECURSIVE Join(_, _)
\* Array.prototype.join(separator)
Join(list, separator) ==
    IF list = <<>> THEN <<>>
    ELSE IF Len(list) = 1 THEN <<list[1]>>
    ELSE <<list[1], separator>> \o Join(Tail(list), separator)

NpmTitle(data, latestVersion) ==
    <<"# ", Get(data, "name"), " v", latestVersion, "\n\n">>

NpmDescription(data) ==
    IF Truthy(Get(data, "description"))
    THEN <<data["description"], "\n\n">> ELSE <<>>

NpmInstallation(package_name) ==
    <<"## Installation\n\n'''bash\nnpm install ", package_name, "\n'''\n\n">>

NpmHomepage(latestData) ==
    IF Truthy(Get(latestData, "homepage"))
    THEN <<"## Homepage\n", latestData["homepage"], "\n\n">> ELSE <<>>

\* latestData.repository?.url, undefined rendered as the empty URL
RepositoryUrl(latestData) ==
    IF Has(latestData, "repository") /\ Has(latestData["repository"], "url")
    THEN latestData["repository"]["url"] ELSE <<>>

NpmRepository(latestData) ==
    IF RepositoryUrl(latestData) # <<>>
    THEN <<"## Repository\n">>
         \o Replace(RepositoryUrl(latestData), <<"g", "i", "t", "+">>, <<>>)
         \o <<"\n\n">>
    ELSE <<>>

NpmKeywords(latestData) ==
    IF Has(latestData, "keywords") /\ Len(latestData["keywords"]) > 0
    THEN <<"## Keywords\n">> \o Join(latestData["keywords"], ", ") \o <<"\n\n">>
    ELSE <<>>

NpmDocumentation(data) ==
    IF Truthy(Get(data, "readme"))
    THEN <<"## Documentation\n\n", data["readme"], "\n">> ELSE <<>>

\* the install command built from the name the registry resolved
NpmDocsResolvedName(package_name, data, latestVersion, latestData) ==
    NpmTitle(data, latestVersion)
    \o NpmDescription(data)
    \o NpmInstallation(Get(data, "name"))
    \o NpmHomepage(latestData)
    \o NpmRepository(latestData)
    \o NpmKeywords(latestData)
    \o NpmDocumentation(data)

NpmDocs(package_name, data, latestVersion, latestData) ==
    NpmTitle(data, latestVersion)
    \o NpmDescription(data)
    \o NpmInstallation(package_name)
    \o NpmHomepage(latestData)
    \o NpmRepository(latestData)
    \o NpmKeywords(latestData)
    \o NpmDocumentation(data)

PypiTitle(info) ==
    <<"# ", Get(info, "name"), " v", Get(info, "version"), "\n\n">>

PypiSummary(info) ==
    IF Truthy(Get(info, "summary")) THEN <<info["summary"], "\n\n">> ELSE <<>>

PypiInstallation(package_name) ==
    <<"## Installation\n\n'''bash\npip install ", package_name, "\n'''\n\n">>

PypiHomepage(info) ==
    IF Truthy(Get(info, "home_page"))
    THEN <<"## Homepage\n", info["home_page"], "\n\n">> ELSE <<>>

RECURSIVE LinkLines(_)
\* for (const [name, url] of Object.entries(info.project_urls))
LinkLines(entries) ==
    IF entries = <<>> THEN <<>>
    ELSE <<"- ", entries[1][1], ": ", entries[1][2], "\n">>
         \o LinkLines(Tail(entries))

\* if (info.project_urls): an object is truthy, an empty one too
PypiProjectLinks(info) ==
    IF Has(info, "project_urls")
    THEN <<"## Project Links\n">> \o LinkLines(info["project_urls"]) \o <<"\n">>
    ELSE <<>>

PypiKeywords(info) ==
    IF Truthy(Get(info, "keywords"))
    THEN <<"## Keywords\n", info["keywords"], "\n\n">> ELSE <<>>

PypiDocumentation(info) ==
    IF Truthy(Get(info, "description"))
    THEN <<"## Documentation\n\n", info["description"], "\n">> ELSE <<>>

PypiDocs(package_name, info) ==
    PypiTitle(info)
    \o PypiSummary(info)
    \o PypiInstallation(package_name)
    \o PypiHomepage(info)
    \o PypiProjectLinks(info)
    \o PypiKeywords(info)
    \o PypiDocumentation(info)

(* ------------------- the handler after its one await ------------------ *)

\* the try block of case "get_npm_docs", from the point the fetch settles
NpmTry(package_name, outcome) ==
    IF ~outcome.ok THEN Throw(outcome.error)
    ELSE LET data == outcome.data IN
      IF ~Has(data, "dist-tags") THEN Throw(TypeError)
      ELSE LET latestVersion == Get(data["dist-tags"], "latest") IN
        IF ~Has(data, "versions") THEN Throw(TypeError)
        ELSE IF ~Has(data["versions"], latestVersion) THEN Throw(TypeError)
        ELSE Return(NpmDocs(package_name, data, latestVersion,
                            data["versions"][latestVersion]))

\* the catch forgetting the upstream message
NpmCatchNoMessage(error) ==
    IF isAxiosError(error)
    THEN Throw(McpError("InternalError", <<"Failed to fetch npm package info">>))
    ELSE Throw(error)

NpmCatch(error) ==
    IF isAxiosError(error)
    THEN Throw(McpError("InternalError",
                        <<"Failed to fetch npm package info: ">> \o error.message))
    ELSE Throw(error)

NpmCase(package_name, outcome) ==
    LET attempt == NpmTry(package_name, outcome)
    IN  IF attempt.kind = "throw" THEN NpmCatch(attempt.error) ELSE attempt

\* the try block of case "get_pypi_docs", from the point the fetch settles
PypiTry(package_name, outcome) ==
    IF ~outcome.ok THEN Throw(outcome.error)
    ELSE IF ~Has(outcome.data, "info") THEN Throw(TypeError)
    ELSE Return(PypiDocs(package_name, outcome.data["info"]))

PypiCatch(error) ==
    IF isAxiosError(error)
    THEN Throw(McpError("InternalError",
                        <<"Failed to fetch PyPI package info: ">> \o error.message))
    ELSE Throw(error)

PypiCase(package_name, outcome) ==
    LET attempt == PypiTry(package_name, outcome)
    IN  IF attempt.kind = "throw" THEN PypiCatch(attempt.error) ELSE attempt

\* the switch without its default case: an unknown name falls into the last case
ToolCaseNoDefault(name) ==
    IF name = "get_npm_docs" THEN "get_npm_docs" ELSE "get_pypi_docs"

\* switch (request.params.name)
ToolCase(name) ==
    IF name = "get_npm_docs" THEN "get_npm_docs"
    ELSE IF name = "get_pypi_docs" THEN "get_pypi_docs"
    ELSE "default"

DefaultCase(name) ==
    Throw(McpError("MethodNotFound", <<"Unknown tool: ", name>>))

(* --------------------------- the dispatcher --------------------------- *)

\* bodies the concurrent specification lets a registry answer with: a full
\* record, a sparse one, and one without the fields the handler dereferences
SampleNpmRecords ==
    { [name |-> "left-pad", description |-> "String left pad",
       readme |-> "README text",
       versions |-> [k \in {"1.3.0"} |->
                       [homepage |-> "https://x",
                        repository |-> [url |-> <<"g", "i", "t", "+", "h">>],
                        keywords |-> <<"pad", "string">>]]]
        @@ [k \in {"dist-tags"} |-> [latest |-> "1.3.0"]],
      [name |-> "left-pad",
       versions |-> [k \in {"1.3.0"} |-> EmptyObject]]
        @@ [k \in {"dist-tags"} |-> [latest |-> "1.3.0"]],
      [name |-> "left-pad", versions |-> EmptyObject] }

SamplePypiRecords ==
    { [info |-> [name |-> "left-pad", version |-> "0.2.1",
                 summary |-> "Left pad for Python", home_page |-> "https://x",
                 project_urls |-> << <<"Docs", "https://d">>,
                                     <<"Source", "https://s">> >>,
                 keywords |-> "pad,string",
                 description |-> "Long description"]],
      [info |-> [name |-> "left-pad", version |-> "0.2.1"]],
      EmptyObject }

Outcomes(records) ==
    { Rejected(e) : e \in AxiosErrors } \cup { Resolved(d) : d \in records }

Init ==
    /\ pc = [i \in Slots |-> "awaiting-request"]
    /\ request = [i \in Slots |-> <<>>]
    /\ fetched = [i \in Slots |-> <<>>]
    /\ response = [i \in Slots |-> <<>>]
    /\ emitted = [i \in Slots |-> <<>>]

\* package_name kept in one module-level variable that every invocation in
\* flight writes: the continuation reads what another invocation stored
SharedPackageName(i) ==
    LET busy == { k \in Slots : pc[k] # "awaiting-request" }
    IN  Get(request[Min(busy)][1].arguments, "package_name")

\* const { package_name } = request.params.arguments, as the continuation
\* after the await reads it
PackageNameOf(i) == Get(request[i][1].arguments, "package_name")

\* a ToolInvocation arrives: the handler runs up to its await, or to the
\* throw of the default case
Receive(i, req) ==
    /\ pc[i] = "awaiting-request"
    /\ request' = [request EXCEPT ![i] = <<req>>]
    /\ response' = [response EXCEPT ![i] = <<>>]
    /\ LET package_name == Get(req.arguments, "package_name")
       IN  CASE ToolCase(req.name) = "get_npm_docs" ->
                  /\ fetched' = [fetched EXCEPT ![i] = <<NpmGet(package_name)>>]
                  /\ emitted' = [emitted EXCEPT ![i] = <<>>]
                  /\ pc' = [pc EXCEPT ![i] = "fetch-pending"]
             [] ToolCase(req.name) = "get_pypi_docs" ->
                  /\ fetched' = [fetched EXCEPT ![i] = <<PypiGet(package_name)>>]
                  /\ emitted' = [emitted EXCEPT ![i] = <<>>]
                  /\ pc' = [pc EXCEPT ![i] = "fetch-pending"]
             [] OTHER ->
                  /\ fetched' = [fetched EXCEPT ![i] = <<>>]
                  /\ emitted' = [emitted EXCEPT ![i] = <<DefaultCase(req.name)>>]
                  /\ pc' = pc

\* the registry answers the pending fetch, or the fetch fails
Settle(i, npmRecords, pypiRecords) ==
    /\ pc[i] = "fetch-pending"
    /\ \E outcome \in Outcomes(IF fetched[i][1].baseURL = npmClient.baseURL
                               THEN npmRecords ELSE pypiRecords) :
         response' = [response EXCEPT ![i] = <<outcome>>]
    /\ pc' = [pc EXCEPT ![i] = "fetch-settled"]
    /\ UNCHANGED <<request, fetched, emitted>>

\* the handler resumes after its await and runs to its return or throw
Resume(i) ==
    /\ pc[i] = "fetch-settled"
    /\ emitted' =
         [emitted EXCEPT ![i] =
            Append(@, IF ToolCase(request[i][1].name) = "get_npm_docs"
                      THEN NpmCase(PackageNameOf(i), response[i][1])
                      ELSE PypiCase(PackageNameOf(i), response[i][1]))]
    /\ pc' = [pc EXCEPT ![i] = "awaiting-request"]
    /\ UNCHANGED <<request, fetched, response>>

\* invocations delivered concurrently, the registries answering from the
\* sample bodies
Next ==
    \E i \in Slots :
        \/ \E req \in Requests : Receive(i, req)
        \/ Settle(i, SampleNpmRecords, SamplePypiRecords)
        \/ Resume(i)

Spec == Init /\ [][Next]_vars

\* one invocation at a time, the registries answering with every generated
\* record
RenderNext ==
    \/ \E req \in Requests : Receive(1, req)
    \/ Settle(1, NpmRecords, PypiRecords)
    \/ Resume(1)

RenderSpec == Init /\ [][RenderNext]_vars

(* ------------------------------ claims -------------------------------- *)

\* the invocation in slot i has run to its return or throw
Done(i) == pc[i] = "awaiting-request" /\ request[i] # <<>>

Known(i) == request[i][1].name \in ToolNames

IsSuccess(c) == c.kind = "return"

\* a structured error result: a kind and a message
IsErrorResult(c) == c.kind = "throw" /\ c.error.name = "McpError"

Contains(s, sub) ==
    \E k \in 0..Len(s) :
        k + Len(sub) <= Len(s) /\ SubSeq(s, k + 1, k + Len(sub)) = sub

Range(s) == { s[k] : k \in 1..Len(s) }

TextOf(c) == c.content[1].text

\* C1: an invocation whose operation name is not get_npm_docs or
\* get_pypi_docs ends at once in the error "method not found", whatever its
\* arguments, and no fetch is issued to either registry for it.
C1_UnknownOperation ==
    \A i \in Slots :
        (request[i] # <<>> /\ ~Known(i)) =>
            /\ pc[i] = "awaiting-request"
            /\ fetched[i] = <<>>
            /\ response[i] = <<>>
            /\ Len(emitted[i]) = 1
            /\ IsErrorResult(emitted[i][1])
            /\ emitted[i][1].error.code = "MethodNotFound"

C1_Witness ==
    \E i, j \in Slots :
        /\ request[i] # <<>> /\ ~Known(i) /\ Len(emitted[i]) = 1
        /\ ~Has(request[i][1].arguments, "package_name")
        /\ pc[j] = "fetch-settled"

\* C2: for both operations, when the one fetch fails (transport failure,
\* timeout, non-2xx status such as 404) the invocation ends in the error
\* "internal error" whose message contains the upstream error's message; it
\* is never a successful document.
C2_FetchFailure ==
    \A i \in Slots :
        (Done(i) /\ Known(i) /\ ~response[i][1].ok) =>
            /\ Len(emitted[i]) = 1
            /\ ~IsSuccess(emitted[i][1])
            /\ IsErrorResult(emitted[i][1])
            /\ emitted[i][1].error.code = "InternalError"
            /\ Contains(emitted[i][1].error.message, response[i][1].error.message)

C2_Witness ==
    \E i, j \in Slots :
        /\ Done(i) /\ request[i][1].name = "get_npm_docs"
        /\ ~response[i][1].ok
        /\ response[i][1].error.message = <<"Request failed with status code 404">>
        /\ Done(j) /\ request[j][1].name = "get_pypi_docs"
        /\ ~response[j][1].ok
        /\ response[j][1].error.code = "ETIMEDOUT"

\* C3: every invocation of a known operation, whatever the registry answers
\* (a 2xx body without dist-tags, dist-tags.latest, the versions entry of
\* the latest tag, or info included), ends in a successful ToolResult or in
\* a structured error result; no untyped fault leaves the handler.
C3_NoUntypedFault ==
    \A i \in Slots :
        (Done(i) /\ Known(i)) =>
            \A k \in 1..Len(emitted[i]) :
                IsSuccess(emitted[i][k]) \/ IsErrorResult(emitted[i][k])

\* the request the claim expects of an invocation
ExpectedFetch(req) ==
    IF req.name = "get_npm_docs"
    THEN [baseURL |-> "https://registry.npmjs.org",
          url |-> <<"/", req.arguments.package_name>>]
    ELSE [baseURL |-> "https://pypi.org/pypi",
          url |-> <<"/", req.arguments.package_name, "/json">>]

\* C4: an invocation of a known operation issues exactly one fetch, to the
\* registry of its operation (npm: /{package_name}, PyPI:
\* /{package_name}/json) with package_name verbatim; while it waits, after
\* the fetch failed and after it ended there is no second fetch and none to
\* the other registry.
C4_ExactlyOneFetch ==
    \A i \in Slots :
        (request[i] # <<>> /\ Known(i)) =>
            fetched[i] = <<ExpectedFetch(request[i][1])>>

C4_Witness ==
    \E i, j \in Slots :
        /\ Done(i) /\ request[i][1].name = "get_npm_docs"
        /\ ~response[i][1].ok /\ Len(fetched[i]) = 1
        /\ Done(j) /\ request[j][1].name = "get_pypi_docs"
        /\ ~response[j][1].ok /\ Len(fetched[j]) = 1
        /\ request[j][1].arguments.package_name = "Left-Pad"

(* ------------------------- claims on rendering ------------------------ *)

InstallHeaders ==
    { "## Installation\n\n'''bash\nnpm install ",
      "## Installation\n\n'''bash\npip install " }

\* the section a header token opens ("" for a token that opens none)
SectionName(token) ==
    CASE token = "# " -> "title"
      [] token \in InstallHeaders -> "Installation"
      [] token = "## Homepage\n" -> "Homepage"
      [] token = "## Repository\n" -> "Repository"
      [] token = "## Project Links\n" -> "Project Links"
      [] token = "## Keywords\n" -> "Keywords"
      [] token = "## Documentation\n\n" -> "Documentation"
      [] OTHER -> ""

\* the sections of a document in the order they appear; the description or
\* summary paragraph has no header and is what stands between the title line
\* (five tokens) and the Installation header
SectionsOf(docs) ==
    LET mark(k) == IF k = 6 /\ docs[k] \notin InstallHeaders
                   THEN "paragraph" ELSE SectionName(docs[k])
        marks == [k \in 1..Len(docs) |-> mark(k)]
    IN  SelectSeq(marks, LAMBDA m : m # "")

\* a field that is present and not the empty string, list or mapping
NonEmptyField(obj, key, empty) == Has(obj, key) /\ obj[key] # empty

When(cond, section) == IF cond THEN <<section>> ELSE <<>>

ExpectedNpmSections(data, latestData) ==
    <<"title">>
    \o When(NonEmptyField(data, "description", ""), "paragraph")
    \o <<"Installation">>
    \o When(NonEmptyField(latestData, "homepage", ""), "Homepage")
    \o When(/\ Has(latestData, "repository")
            /\ NonEmptyField(latestData["repository"], "url", <<>>),
            "Repository")
    \o When(NonEmptyField(latestData, "keywords", <<>>), "Keywords")
    \o When(NonEmptyField(data, "readme", ""), "Documentation")

ExpectedPypiSections(info) ==
    <<"title">>
    \o When(NonEmptyField(info, "summary", ""), "paragraph")
    \o <<"Installation">>
    \o When(NonEmptyField(info, "home_page", ""), "Homepage")
    \o When(NonEmptyField(info, "project_urls", <<>>), "Project Links")
    \o When(NonEmptyField(info, "keywords", ""), "Keywords")
    \o When(NonEmptyField(info, "description", ""), "Documentation")

\* slot i holds a rendered document of the named operation
Rendered(i, name) ==
    /\ Done(i) /\ request[i][1].name = name
    /\ Len(emitted[i]) = 1 /\ IsSuccess(emitted[i][1])

DataOf(i) == response[i][1].data

LatestDataOf(i) == DataOf(i)["versions"][DataOf(i)["dist-tags"]["latest"]]

\* C5: a rendered document has its sections in the fixed order of its
\* registry, and an optional section is there if and only if its source
\* field is present and non-empty; presence never reorders.
C5_SectionsInOrder ==
    \A i \in Slots :
        /\ Rendered(i, "get_npm_docs") =>
             SectionsOf(TextOf(emitted[i][1]))
               = ExpectedNpmSections(DataOf(i), LatestDataOf(i))
        /\ Rendered(i, "get_pypi_docs") =>
             SectionsOf(TextOf(emitted[i][1]))
               = ExpectedPypiSections(DataOf(i)["info"])

\* the lines the claim expects for a mapping: - {linkName}: {url}
ExpectedLinkLines(links) ==
    [j \in 1..(5 * Len(links)) |->
        LET entry == links[((j - 1) \div 5) + 1]
            r == (j - 1) % 5
        IN  CASE r = 0 -> "- "
              [] r = 1 -> entry[1]
              [] r = 2 -> ": "
              [] r = 3 -> entry[2]
              [] OTHER -> "\n"]

\* C6: get_pypi_docs emits "Project Links" only for a non-empty
\* info.project_urls (absent or empty: no header at all), and then with
\* exactly one line "- {linkName}: {url}" per entry, in the mapping's order.
C6_ProjectLinks ==
    \A i \in Slots :
        Rendered(i, "get_pypi_docs") =>
            LET info == DataOf(i)["info"]
                docs == TextOf(emitted[i][1])
                links == IF Has(info, "project_urls")
                         THEN info["project_urls"] ELSE <<>>
            IN  IF links = <<>>
                THEN "## Project Links\n" \notin Range(docs)
                ELSE Contains(docs, <<"## Project Links\n">>
                                    \o ExpectedLinkLines(links) \o <<"\n">>)

\* a leading git+ removed once; anything else left as it is
StripGitPrefix(url) ==
    IF Len(url) >= 4 /\ SubSeq(url, 1, 4) = <<"g", "i", "t", "+">>
    THEN SubSeq(url, 5, Len(url)) ELSE url

\* C7: when the latest-version entry has a repository URL, "Repository"
\* shows it with a leading git+ removed once, and unmodified when it does
\* not begin with git+ (a git+ elsewhere in the URL stays).
C7_RepositoryPrefix ==
    \A i \in Slots :
        (Rendered(i, "get_npm_docs") /\ RepositoryUrl(LatestDataOf(i)) # <<>>) =>
            Contains(TextOf(emitted[i][1]),
                     <<"## Repository\n">>
                     \o StripGitPrefix(RepositoryUrl(LatestDataOf(i)))
                     \o <<"\n\n">>)

\* a ToolResult: a successful payload or a structured error
IsToolResult(c) == IsSuccess(c) \/ IsErrorResult(c)

\* C8: every received invocation emits exactly one ToolResult (success or
\* error) and the dispatcher is then awaiting-request again; none is emitted
\* while the fetch is outstanding, never two.
C8_ExactlyOneToolResult ==
    \A i \in Slots :
        /\ Done(i) =>
             Len(SelectSeq(emitted[i], IsToolResult)) = 1 /\ Len(emitted[i]) = 1
        /\ pc[i] # "awaiting-request" => emitted[i] = <<>>

\* C9: under any interleaving, two invocations with the same operation, the
\* same package_name and the same upstream answer have the same result,
\* whatever else ran before or in between.
C9_Independent ==
    \A i, j \in Slots :
        (Done(i) /\ Done(j) /\ request[i] = request[j]
         /\ response[i] = response[j]) =>
            emitted[i] = emitted[j]

C9_Witness ==
    \E i, j \in Slots :
        /\ i # j /\ Done(i) /\ Done(j) /\ Known(i)
        /\ request[i] = request[j] /\ response[i] = response[j]
        /\ IsSuccess(emitted[i][1]) /\ emitted[i] = emitted[j]

\* C10: every rendered document has the Installation section exactly once,
\* and its install command embeds the invocation's package_name verbatim,
\* not the name the registry returned.
C10_Installation ==
    \A i \in Slots :
        (Done(i) /\ Known(i) /\ IsSuccess(emitted[i][1])) =>
            LET docs == TextOf(emitted[i][1])
                at == { k \in 1..Len(docs) : docs[k] \in InstallHeaders }
                header == IF request[i][1].name = "get_npm_docs"
                          THEN "## Installation\n\n'''bash\nnpm install "
                          ELSE "## Installation\n\n'''bash\npip install "
            IN  /\ Cardinality(at) = 1
                /\ \A k \in at :
                     /\ docs[k] = header
                     /\ k + 2 <= Len(docs)
                     /\ docs[k + 1] = request[i][1].arguments.package_name
                     /\ docs[k + 2] = "\n'''\n\n"

C10_Witness ==
    \E i \in Slots :
        /\ Rendered(i, "get_npm_docs")
        /\ request[i][1].arguments.package_name # DataOf(i)["name"]
        /\ Has(LatestDataOf(i), "keywords")
        /\ Has(DataOf(i), "readme")

====
